---- MODULE Spec2Model ----
(***************************************************************************)
(* A model of ParamEditor (src/parameditor.h): the Parameter variants,     *)
(* the ParamsEditor dialog (tabs, registration, load/save, apply/cancel)   *)
(* and the AdvancedPropertyAdapter that binds a QObject's properties.      *)
(*                                                                         *)
(* A text (a QString) is a sequence of pieces: single characters where the *)
(* code looks at characters (digits, signs, commas, underscores, spaces),  *)
(* whole words elsewhere. Number formatting, parsing and splitting are     *)
(* computed on the pieces.                                                 *)
(***************************************************************************)
EXTENDS Integers, Sequences, FiniteSets, TLC

(* ------------------------------------------------------------------ *)
(* Bounds of the model                                                 *)
(* ------------------------------------------------------------------ *)
\* addTab calls the host makes
MaxTabs == 1
\* Parameters the host constructs itself while building (the binder adds its own)
MaxParams == 1
\* setMainHelp calls the host makes
MaxHelp == 2
\* operations on a built editor: edits, colour picks, resets, loads, saves
MaxOps == 3
MaxDestroyed == 2
\* properties createParamForProperty is given one by one
MaxProbes == 1

(* ------------------------------------------------------------------ *)
(* Program constants                                                   *)
(* ------------------------------------------------------------------ *)
INT_MAX == 2147483647
INT_MIN == -2147483647 - 1
\* main.cpp: IntParam("Answer", &intVal, 0, 100, 1, ...)
AnswerMin == 0
AnswerMax == 100

(* ------------------------------------------------------------------ *)
(* Text and the conversions of QString                                 *)
(* ------------------------------------------------------------------ *)
Digits == <<"0", "1", "2", "3", "4", "5", "6", "7", "8", "9">>

IsDigit(c) == \E d \in 1..10 : Digits[d] = c

DigitVal(c) == (CHOOSE d \in 1..10 : Digits[d] = c) - 1

RECURSIVE NatText(_)
NatText(n) == IF n < 10 THEN <<Digits[n + 1]>>
              ELSE NatText(n \div 10) \o <<Digits[(n % 10) + 1]>>

\* QString::number(int)
NumberToText(n) == IF n < 0 THEN <<"-">> \o NatText(-n) ELSE NatText(n)

RECURSIVE DigitsValue(_, _)
DigitsValue(s, acc) == IF s = <<>> THEN acc
                       ELSE DigitsValue(Tail(s), acc * 10 + DigitVal(Head(s)))

\* QStringView::toInt(bool* ok = nullptr): the parsed value, and 0 when the
\* text is not a decimal integer (ok is not looked at by the code). A text of
\* more than MaxDigits digits is taken as outside int's width.
MaxDigits == 9

ParsesAsInt(s) ==
    LET body == IF s # <<>> /\ Head(s) \in {"-", "+"} THEN Tail(s) ELSE s
    IN  /\ body # <<>>
        /\ \A i \in 1..Len(body) : IsDigit(body[i])
        /\ Len(body) <= MaxDigits

TextToInt(s) ==
    IF ParsesAsInt(s)
    THEN LET body == IF Head(s) \in {"-", "+"} THEN Tail(s) ELSE s
         IN  IF Head(s) = "-" THEN -DigitsValue(body, 0) ELSE DigitsValue(body, 0)
    ELSE 0

\* QString::split(",", Qt::SkipEmptyParts)
RECURSIVE SplitAcc(_, _, _)
SplitAcc(s, cur, acc) ==
    IF s = <<>> THEN (IF cur = <<>> THEN acc ELSE Append(acc, cur))
    ELSE IF Head(s) = ","
         THEN SplitAcc(Tail(s), <<>>, IF cur = <<>> THEN acc ELSE Append(acc, cur))
         ELSE SplitAcc(Tail(s), Append(cur, Head(s)), acc)

SplitSkipEmpty(s) == SplitAcc(s, <<>>, <<>>)

\* the attribute texts of BoolParam
TrueText == <<"true">>
FalseText == <<"false">>

(* ------------------------------------------------------------------ *)
(* Colours: rgb and alpha; QColor::name() gives #rrggbb, without alpha *)
(* ------------------------------------------------------------------ *)
Color(rgb, a) == [rgb |-> rgb, a |-> a]
Blue == Color("#0000ff", 255)
Red == Color("#ff0000", 255)
Green == Color("#00ff00", 255)
Black == Color("#000000", 255)
RgbNames == {"#0000ff", "#ff0000", "#00ff00", "#000000"}

\* QColor::name(): the text "#rrggbb"
ColorName(c) == <<c.rgb>>

\* QColor(const QString& name): an opaque colour; a text that names no colour
\* gives the invalid colour, whose name() is that of black
ColorFromName(n) ==
    IF Len(n) = 1 /\ n[1] \in RgbNames THEN Color(n[1], 255) ELSE Black

(* ------------------------------------------------------------------ *)
(* The editor controls (the behaviour of the Qt widgets the code uses) *)
(* ------------------------------------------------------------------ *)
\* QSpinBox::setValue: qBound(minimum, v, maximum)
\* a different QSpinBox, that takes any value: C17_NumericClamping must tell
\* it from the code's
SpinSetValue_NoClamp(min, max, v) == v

SpinSetValue(min, max, v) == IF v < min THEN min ELSE IF v > max THEN max ELSE v

\* QComboBox::setCurrentIndex: an index that is no item's clears the selection
ComboSetCurrentIndex(count, i) == IF i >= 0 /\ i < count THEN i ELSE -1

\* QComboBox::addItems on an empty editable box: the first item becomes current
\* and its text is the text of the line edit
ComboAddItems(items) ==
    [items |-> items, text |-> IF items = <<>> THEN <<>> ELSE items[1]]

\* ColorParam::updateButton: the button shows c.name()
UpdateButton(c) == ColorFromName(ColorName(c))

(* ------------------------------------------------------------------ *)
(* State                                                               *)
(* ------------------------------------------------------------------ *)
VARIABLES
    params,       \* the Parameter objects constructed so far: their fixed fields
    ctrl,         \* ctrl[p]: the value Parameter p's editor control holds
    slot,         \* slot[p]: the value *ptr of Parameter p (a host variable, or
                  \* the buffer the binder allocated)
    obj,          \* the bound object's properties, by name
    bound,        \* has bindObjectToEditor run
    tabCount,     \* tabs->count()
    allParams,    \* ParamsEditor::allParams
    helpTabCreated,
    helpHtml,     \* helpBrowser's content
    writeBacks,   \* the lambdas connected to ParamsEditor::accepted, in order
    visible,      \* is the dialog displayed
    outcome,      \* "pending", "accepted" or "rejected"
    file,         \* the document saveToFile wrote last
    log,          \* history: what onApplyClicked did, in order
    addTabLog,    \* history: per addTab call, what it returned and built
    addLog,       \* history: per addParam call, the Parameter and the index given
    written,      \* history: the property writes, with the outcome at the time
    pre,          \* history: slots and properties when the dialog was displayed
    lastOp,       \* history: the operation that led to this state
    helpCalls,    \* history: the setMainHelp calls so far
    nops,         \* operations after the build phase
    life,         \* which objects exist, which buffers were released, and the
                  \* uses of a released buffer
    probe         \* history: the properties createParamForProperty was given
                  \* one by one, and the Parameters it made for each

vars == <<params, ctrl, slot, obj, bound, tabCount, allParams, helpTabCreated,
          helpHtml, writeBacks, visible, outcome, file, log, addTabLog, addLog,
          written, pre, lastOp, helpCalls, nops, life, probe>>

Ids == 1..Len(params)

\* the Parameters of allParams in the order the loops of the editor visit them
RECURSIVE Flatten(_)
Flatten(tabs) == IF tabs = <<>> THEN <<>> ELSE Head(tabs) \o Flatten(Tail(tabs))

Registered == {Flatten(allParams)[i] : i \in 1..Len(Flatten(allParams))}

(* ------------------------------------------------------------------ *)
(* The Parameter variants: constructors                                *)
(* ------------------------------------------------------------------ *)
NoOptions == <<>>

Fields(kind, name, defVal, min, max, options, enumProp) ==
    [kind |-> kind, name |-> name, defVal |-> defVal, min |-> min, max |-> max,
     options |-> options, enumProp |-> enumProp]

\* each constructor gives the Parameter's fields, its control's first value and
\* the value of *p it was given
IntParam(name, p, min, max, step) ==
    [cfg  |-> Fields("int", name, p, min, max, NoOptions, <<>>) @@ [step |-> step],
     ctrl |-> SpinSetValue(min, max, p),
     slot |-> p]

StringParam(name, p, def) ==
    [cfg  |-> Fields("string", name, def, 0, 0, NoOptions, <<>>),
     ctrl |-> p,
     slot |-> p]

ComboParam(name, opts, p, defIndex) ==
    [cfg  |-> Fields("combo", name, defIndex, 0, 0, opts, <<>>),
     ctrl |-> ComboSetCurrentIndex(Len(opts), p),
     slot |-> p]

ColorParam(name, p, def) ==
    [cfg  |-> Fields("color", name, def, 0, 0, NoOptions, <<>>),
     ctrl |-> UpdateButton(p),
     slot |-> p]

BoolParam(name, p, def) ==
    [cfg  |-> Fields("bool", name, def, 0, 0, NoOptions, <<>>),
     ctrl |-> p,
     slot |-> p]

StringListParam(name, p, def) ==
    [cfg  |-> Fields("strlist", name, def, 0, 0, NoOptions, <<>>),
     ctrl |-> ComboAddItems(p),
     slot |-> p]

(* ------------------------------------------------------------------ *)
(* The Parameter variants: apply, reset, save, load                    *)
(* A world w holds the controls, the slots, the object's properties    *)
(* and the events (apply, accepted, property write) in their order.    *)
(* ------------------------------------------------------------------ *)
Event(e, p, prop) == [ev |-> e, p |-> p, prop |-> prop]

World == [ctrl |-> ctrl, slot |-> slot, obj |-> obj, ev |-> <<>>]

\* QMetaProperty::write
PropWrite(w, prop, v) ==
    [w EXCEPT !.obj[prop] = v, !.ev = Append(@, Event("write", 0, prop))]

\* the lambda createEnumParam connects to QComboBox::currentIndexChanged
EnumIndexChanged(w, p, index) ==
    PropWrite([w EXCEPT !.slot[p] = index], params[p].enumProp, index)

\* a different setCurrentIndex, that leaves the selection as it is:
\* C18_ChoiceIndexStable must tell it from the code's
ComboSelect_Stays(w, p, i) == w

\* combo->setCurrentIndex(i): currentIndexChanged is emitted when the index changes
ComboSelect(w, p, i) ==
    LET j == ComboSetCurrentIndex(Len(params[p].options), i)
        w1 == [w EXCEPT !.ctrl[p] = j]
    IN  IF j = w.ctrl[p] THEN w
        ELSE IF params[p].enumProp # <<>> THEN EnumIndexChanged(w1, p, j)
        ELSE w1

ParamApply(w, p) ==
    LET k == params[p].kind
    IN  IF k = "strlist"
        THEN [w EXCEPT !.slot[p] = SplitSkipEmpty(w.ctrl[p].text)]
        ELSE [w EXCEPT !.slot[p] = w.ctrl[p]]

ParamReset(w, p) ==
    LET k == params[p].kind
        d == params[p].defVal
    IN  CASE k = "int"     -> [w EXCEPT !.ctrl[p] = SpinSetValue(params[p].min, params[p].max, d)]
          [] k = "combo"   -> ComboSelect(w, p, d)
          [] k = "color"   -> [w EXCEPT !.ctrl[p] = UpdateButton(d)]
          [] k = "strlist" -> [w EXCEPT !.ctrl[p] = ComboAddItems(d)]
          [] OTHER         -> [w EXCEPT !.ctrl[p] = d]

\* the attributes save() writes on the element named params[p].name
NoAttrs == [a \in {} |-> <<>>]

\* a different save(), that writes the value of the slot for the numeric,
\* choice and boolean variants: C13_SaveReadsControl must tell it from the code's
ParamSave_FromSlot(c, p) ==
    LET k == params[p].kind
    IN  CASE k = "int"     -> [value |-> NumberToText(slot[p])]
          [] k = "combo"   -> [index |-> NumberToText(slot[p])]
          [] k = "color"   -> [color |-> ColorName(c[p])]
          [] k = "bool"    -> [value |-> IF slot[p] THEN TrueText ELSE FalseText]
          [] k = "strlist" -> [value |-> c[p].text]
          [] OTHER         -> [value |-> c[p]]

ParamSave(c, p) ==
    LET k == params[p].kind
    IN  CASE k = "int"     -> [value |-> NumberToText(c[p])]
          [] k = "combo"   -> [index |-> NumberToText(c[p])]
          [] k = "color"   -> [color |-> ColorName(c[p])]
          [] k = "bool"    -> [value |-> IF c[p] THEN TrueText ELSE FalseText]
          [] k = "strlist" -> [value |-> c[p].text]
          [] OTHER         -> [value |-> c[p]]

HasAttribute(attrs, a) == a \in DOMAIN attrs

\* load(), without its trailing r.readNext()
ParamLoad(w, p, attrs) ==
    LET k == params[p].kind
    IN  CASE k = "int" ->
               IF HasAttribute(attrs, "value")
               THEN [w EXCEPT !.ctrl[p] = SpinSetValue(params[p].min, params[p].max,
                                                      TextToInt(attrs["value"]))]
               ELSE w
          [] k = "combo" ->
               IF HasAttribute(attrs, "index")
               THEN ComboSelect(w, p, TextToInt(attrs["index"]))
               ELSE w
          [] k = "color" ->
               IF HasAttribute(attrs, "color")
               THEN [w EXCEPT !.ctrl[p] = UpdateButton(ColorFromName(attrs["color"]))]
               ELSE w
          [] k = "bool" ->
               IF HasAttribute(attrs, "value")
               THEN [w EXCEPT !.ctrl[p] = (attrs["value"] = TrueText)]
               ELSE w
          [] k = "strlist" ->
               IF HasAttribute(attrs, "value")
               THEN [w EXCEPT !.ctrl[p] = ComboAddItems(SplitSkipEmpty(attrs["value"]))]
               ELSE w
          [] OTHER ->
               IF HasAttribute(attrs, "value")
               THEN [w EXCEPT !.ctrl[p] = attrs["value"]]
               ELSE w

(* ------------------------------------------------------------------ *)
(* Documents: the token sequence QXmlStreamReader reports              *)
(* ------------------------------------------------------------------ *)
StartEl(n, attrs) == [type |-> "start", name |-> n, attrs |-> attrs]
EndEl(n) == [type |-> "end", name |-> n, attrs |-> NoAttrs]
Chars == [type |-> "chars", name |-> <<>>, attrs |-> NoAttrs]
EndDoc == [type |-> "enddoc", name |-> <<>>, attrs |-> NoAttrs]
StartDoc == [type |-> "startdoc", name |-> <<>>, attrs |-> NoAttrs]

\* the reader is a document and the position of its current token
\* (0: before the first readNext)
Token(doc, pos) == IF pos = 0 THEN StartDoc ELSE doc[pos]

AtEnd(doc, pos) == Token(doc, pos).type = "enddoc"

ReadNext(doc, pos) == IF pos < Len(doc) THEN pos + 1 ELSE pos

\* the two inner loops of loadFromFile over allParams: every Parameter whose
\* name is the reader's current name loads, and load() moves the reader on
RECURSIVE LoadParams(_, _, _, _)
LoadParams(doc, ps, pos, w) ==
    IF ps = <<>> THEN [pos |-> pos, w |-> w]
    ELSE LET p == Head(ps)
         IN  IF params[p].name = Token(doc, pos).name
             THEN LoadParams(doc, Tail(ps), ReadNext(doc, pos),
                             ParamLoad(w, p, Token(doc, pos).attrs))
             ELSE LoadParams(doc, Tail(ps), pos, w)

\* a different loadFromFile, that gives up at the first start element no
\* Parameter is named as: C22_UnknownIgnored must tell it from the code's
RECURSIVE LoadScan_StopsAtUnknown(_, _, _)
LoadScan_StopsAtUnknown(doc, pos, w) ==
    IF AtEnd(doc, pos) THEN w
    ELSE LET q == ReadNext(doc, pos)
         IN  IF Token(doc, q).type = "start"
             THEN IF \A i \in 1..Len(Flatten(allParams)) :
                        params[Flatten(allParams)[i]].name # Token(doc, q).name
                  THEN w
                  ELSE LET r == LoadParams(doc, Flatten(allParams), q, w)
                       IN  LoadScan_StopsAtUnknown(doc, r.pos, r.w)
             ELSE LoadScan_StopsAtUnknown(doc, q, w)

\* the while loop of loadFromFile
RECURSIVE LoadScan(_, _, _)
LoadScan(doc, pos, w) ==
    IF AtEnd(doc, pos) THEN w
    ELSE LET q == ReadNext(doc, pos)
         IN  IF Token(doc, q).type = "start"
             THEN LET r == LoadParams(doc, Flatten(allParams), q, w)
                  IN  LoadScan(doc, r.pos, r.w)
             ELSE LoadScan(doc, q, w)

\* a different saveToFile, that visits the Parameters from the last to the
\* first: C12_SaveFormat must tell it from the code's
RECURSIVE SaveParams_Reversed(_, _)
SaveParams_Reversed(ps, c) ==
    IF ps = <<>> THEN <<>>
    ELSE SaveParams_Reversed(Tail(ps), c) \o
         <<Chars, StartEl(params[Head(ps)].name, ParamSave(c, Head(ps))),
           EndEl(params[Head(ps)].name)>>

\* the document saveToFile writes (auto-formatting puts white space between
\* the elements)
RECURSIVE SaveParams(_, _)
SaveParams(ps, c) ==
    IF ps = <<>> THEN <<>>
    ELSE <<Chars, StartEl(params[Head(ps)].name, ParamSave(c, Head(ps))),
           EndEl(params[Head(ps)].name)>> \o SaveParams(Tail(ps), c)

SavedDocument ==
    <<StartEl(<<"Params">>, NoAttrs)>> \o SaveParams(Flatten(allParams), ctrl)
        \o <<Chars, EndEl(<<"Params">>), EndDoc>>

(* ------------------------------------------------------------------ *)
(* ParamsEditor                                                        *)
(* ------------------------------------------------------------------ *)
\* addTab: the index it returns
AddTabIndex(count) == count

\* a different addParam, that puts an index out of range into the nearest tab:
\* C5_OutOfRangeAddParam must tell it from the code's
RegisterParam_Clamped(tabs, tabIndex, p) ==
    IF tabs = <<>> THEN tabs
    ELSE IF tabIndex < 0 THEN [tabs EXCEPT ![1] = Append(@, p)]
    ELSE IF tabIndex >= Len(tabs) THEN [tabs EXCEPT ![Len(tabs)] = Append(@, p)]
    ELSE [tabs EXCEPT ![tabIndex + 1] = Append(@, p)]

\* addParam: allParams after addParam(tabIndex, p)
RegisterParam(tabs, tabIndex, p) ==
    IF tabIndex < 0 \/ tabIndex >= Len(tabs) THEN tabs
    ELSE [tabs EXCEPT ![tabIndex + 1] = Append(@, p)]

\* the loop of onApplyClicked
RECURSIVE ApplyAll(_, _)
ApplyAll(ps, w) ==
    IF ps = <<>> THEN w
    ELSE ApplyAll(Tail(ps),
                  [ParamApply(w, Head(ps)) EXCEPT !.ev = Append(@, Event("apply", Head(ps), <<>>))])

\* QDialog::accept(): the result is set, then the accepted() signal runs the
\* connected lambdas in the order of their connection
RECURSIVE RunWriteBacks(_, _)
RunWriteBacks(wbs, w) ==
    IF wbs = <<>> THEN w
    ELSE RunWriteBacks(Tail(wbs), PropWrite(w, Head(wbs).prop, w.slot[Head(wbs).p]))

Accept(w) ==
    RunWriteBacks(writeBacks, [w EXCEPT !.ev = Append(@, Event("accepted", 0, <<>>))])

\* a different onApplyClicked, that calls accept() before the loop:
\* C2_AcceptOrder must tell it from the code's
OnApplyClicked_AcceptFirst(w) == ApplyAll(Flatten(allParams), Accept(w))

OnApplyClicked(w) == Accept(ApplyAll(Flatten(allParams), w))

(* ------------------------------------------------------------------ *)
(* The bound object                                                    *)
(* ------------------------------------------------------------------ *)
Property(name, type, writable, keys) ==
    [name |-> name, type |-> type, writable |-> writable, keys |-> keys]

\* the properties of the object's meta-object, in order: QObject's objectName,
\* then the object's own (after ExtendedConfig of test.h, with a Q_ENUM
\* enumeration, whose userType() is the enumeration's own meta-type, and a
\* QFont, a type createParamForProperty has no branch for, in a category of
\* its own)
ObjProps == <<
    Property(<<"objectName">>, "QString", TRUE, <<>>),
    Property(<<"integerValue">>, "int", TRUE, <<>>),
    Property(<<"colorValue">>, "QColor", TRUE, <<>>),
    Property(<<"fontValue">>, "QFont", TRUE, <<>>),
    Property(<<"mode">>, "enum", TRUE, << <<"Off">>, <<"On">>, <<"Auto">> >>),
    Property(<<"integer", "Display">>, "QString", FALSE, <<>>),
    Property(<<"color", "Category">>, "QString", FALSE, <<>>),
    Property(<<"fontValue", "Category">>, "QString", FALSE, <<>>),
    Property(<<"mode", "Category">>, "QString", FALSE, <<>>) >>

ObjInit ==
    (<<"objectName">> :> <<>>) @@
    (<<"integerValue">> :> 42) @@
    (<<"colorValue">> :> Blue) @@
    (<<"mode">> :> 1) @@
    (<<"fontValue">> :> <<"Arial">>) @@
    (<<"integer", "Display">> :> <<"Integer", " ", "Setting">>) @@
    (<<"color", "Category">> :> <<"Appearance">>) @@
    (<<"fontValue", "Category">> :> <<"Fonts">>) @@
    (<<"mode", "Category">> :> <<"Appearance">>)

DefaultTabName == <<"Class">>

\* QObject::property(name): an invalid QVariant when there is no such property
ObjProperty(o, name) ==
    IF name \in DOMAIN o THEN [valid |-> TRUE, v |-> o[name]]
    ELSE [valid |-> FALSE, v |-> 0]

\* QVariant::toDouble
ToDouble(q) == IF q.valid THEN q.v ELSE 0

\* cleanName: a leading "m_" removed, every '_' replaced by ' '
CleanName(n) ==
    LET m == IF Len(n) >= 2 /\ n[1] = "m" /\ n[2] = "_" THEN SubSeq(n, 3, Len(n)) ELSE n
    IN  [i \in 1..Len(m) |-> IF m[i] = "_" THEN " " ELSE m[i]]

ExtractPropertyInfo(o, prop) ==
    LET displayVar  == ObjProperty(o, prop.name \o <<"Display">>)
        categoryVar == ObjProperty(o, prop.name \o <<"Category">>)
    IN  [name        |-> prop.name,
         displayName |-> IF displayVar.valid THEN displayVar.v ELSE CleanName(prop.name),
         category    |-> IF categoryVar.valid THEN categoryVar.v ELSE <<>>,
         min         |-> ToDouble(ObjProperty(o, prop.name \o <<"Min">>)),
         max         |-> ToDouble(ObjProperty(o, prop.name \o <<"Max">>)),
         step        |-> ToDouble(ObjProperty(o, prop.name \o <<"Step">>)),
         enumNames   |-> IF prop.type = "enum" THEN prop.keys ELSE <<>>]

\* The editor while bindObjectToEditor runs: e holds the Parameter objects,
\* the tabs, the connections and the local categoryToTabIndex.
NoCategories == [c \in {} |-> 0]

Editor ==
    [params |-> params, ctrl |-> ctrl, slot |-> slot, tabCount |-> tabCount,
     allParams |-> allParams, writeBacks |-> writeBacks, cat |-> NoCategories,
     helpTabCreated |-> helpTabCreated, helpHtml |-> helpHtml,
     addTabLog |-> addTabLog, addLog |-> addLog]

\* the editor after ParamsEditor's constructor
NewEditor ==
    [params |-> <<>>, ctrl |-> <<>>, slot |-> <<>>, tabCount |-> 0,
     allParams |-> <<>>, writeBacks |-> <<>>, cat |-> NoCategories,
     helpTabCreated |-> FALSE, helpHtml |-> <<>>,
     addTabLog |-> <<>>, addLog |-> <<>>]

\* a Parameter object comes to exist; its id is its position
NewObject(e, made) ==
    [e EXCEPT !.params = Append(@, made.cfg),
              !.ctrl = Append(@, made.ctrl),
              !.slot = Append(@, made.slot)]

\* editor->addParam(tabIndex, param) for the Parameter made last
EditorAddParam(e, tabIndex, by) ==
    [e EXCEPT !.allParams = RegisterParam(@, tabIndex, Len(e.params)),
              !.addLog = Append(@, [p |-> Len(e.params), tab |-> tabIndex,
                                    ntabs |-> Len(e.allParams), by |-> by])]

\* editor->addTab(title)
EditorAddTab(e, by, title) ==
    [e EXCEPT !.tabCount = @ + 1,
              !.allParams = Append(@, <<>>),
              !.addTabLog = Append(@, [ret |-> AddTabIndex(e.tabCount),
                                       group |-> Len(e.allParams), by |-> by,
                                       title |-> title])]

\* a different setMainHelp, that adds a help tab at every call:
\* C15_OneHelpTab must tell it from the code's
EditorSetMainHelp_AlwaysAdds(e, html) ==
    [e EXCEPT !.tabCount = @ + 1,
              !.helpTabCreated = TRUE,
              !.helpHtml = html]

\* editor->setMainHelp(html)
EditorSetMainHelp(e, html) ==
    [e EXCEPT !.tabCount = IF e.helpTabCreated THEN @ ELSE @ + 1,
              !.helpTabCreated = TRUE,
              !.helpHtml = html]

\* setupParamConnections: the write-back is connected, then addParam
SetupParamConnections(e, tabIndex, made, prop) ==
    LET e1 == NewObject(e, made)
        e2 == [e1 EXCEPT !.writeBacks = Append(@, [prop |-> prop.name, p |-> Len(e1.params)])]
    IN  EditorAddParam(e2, tabIndex, "binder")

\* a different createIntParam, that takes the full range only when neither
\* bound is set: C26_BinderIntRange must tell it from the code's
CreateIntParam_EitherZero(e, tabIndex, o, prop, info) ==
    LET v   == o[prop.name]
        min == IF info.min # 0 /\ info.max # 0 THEN info.min ELSE INT_MIN
        max == IF info.min # 0 /\ info.max # 0 THEN info.max ELSE INT_MAX
        step == IF info.step # 0 THEN info.step ELSE 1
    IN  SetupParamConnections(e, tabIndex,
                              IntParam(info.displayName, v, min, max, step), prop)

CreateIntParam(e, tabIndex, o, prop, info) ==
    LET v   == o[prop.name]
        min == IF info.min # 0 \/ info.max # 0 THEN info.min ELSE INT_MIN
        max == IF info.min # 0 \/ info.max # 0 THEN info.max ELSE INT_MAX
        step == IF info.step # 0 THEN info.step ELSE 1
    IN  SetupParamConnections(e, tabIndex,
                              IntParam(info.displayName, v, min, max, step), prop)

CreateBoolParam(e, tabIndex, o, prop, info) ==
    SetupParamConnections(e, tabIndex,
        BoolParam(info.displayName, o[prop.name], o[prop.name]), prop)

CreateStringParam(e, tabIndex, o, prop, info) ==
    SetupParamConnections(e, tabIndex,
        StringParam(info.displayName, o[prop.name], o[prop.name]), prop)

CreateColorParam(e, tabIndex, o, prop, info) ==
    SetupParamConnections(e, tabIndex,
        ColorParam(info.displayName, o[prop.name], o[prop.name]), prop)

CreateStringListParam(e, tabIndex, o, prop, info) ==
    SetupParamConnections(e, tabIndex,
        StringListParam(info.displayName, o[prop.name], o[prop.name]), prop)

\* createEnumParam: no write-back is connected; the combo box's
\* currentIndexChanged writes the buffer and the property
CreateEnumParam(e, tabIndex, o, prop, info) ==
    LET made == ComboParam(info.displayName, info.enumNames, o[prop.name], o[prop.name])
        e1   == NewObject(e, [made EXCEPT !.cfg.enumProp = prop.name])
    IN  EditorAddParam(e1, tabIndex, "binder")

\* the if-else chain of createParamForProperty on prop.userType(), in its
\* order: the meta-type and the variant whose create function it calls
TypeTable == <<
    <<"int", "int">>, <<"double", "double">>, <<"float", "float">>, <<"bool", "bool">>,
    <<"QString", "string">>, <<"QColor", "color">>, <<"QStringList", "strlist">>,
    <<"QDate", "date">>, <<"QTime", "time">>, <<"QPoint", "point">>, <<"QSize", "size">>,
    <<"QRect", "rect">>, <<"QVariant", "variant">> >>

\* a different chain, that asks prop.isEnumType() first: C25_TypeDispatch
\* must tell it from the code's
SelectVariant_EnumFirst(prop) ==
    IF prop.keys # <<>> THEN "combo"
    ELSE IF \E i \in DOMAIN TypeTable : TypeTable[i][1] = prop.type
         THEN TypeTable[CHOOSE i \in DOMAIN TypeTable : TypeTable[i][1] = prop.type][2]
         ELSE "none"

\* the branch taken: the first whose meta-type is prop.userType(), else the
\* enumeration's when prop.isEnumType() (the property's enumerator has
\* keys), else the qWarning
SelectVariant(prop) ==
    IF \E i \in DOMAIN TypeTable : TypeTable[i][1] = prop.type
    THEN TypeTable[CHOOSE i \in DOMAIN TypeTable :
                      /\ TypeTable[i][1] = prop.type
                      /\ \A j \in 1..(i - 1) : TypeTable[j][1] # prop.type][2]
    ELSE IF prop.keys # <<>> THEN "combo"
    ELSE "none"

\* createDoubleParam, createFloatParam, createDateParam, createTimeParam,
\* createPointParam, createSizeParam, createRectParam, createVariantParam:
\* a buffer holding the property's value, a Parameter of the variant on it,
\* setupParamConnections (of these variants only the kind is modelled)
CreateValueParam(e, tabIndex, o, prop, info, kind) ==
    SetupParamConnections(e, tabIndex,
        [cfg  |-> Fields(kind, info.displayName, o[prop.name], 0, 0, NoOptions, <<>>),
         ctrl |-> o[prop.name],
         slot |-> o[prop.name]], prop)

CreateParamForProperty(e, tabIndex, o, prop, info) ==
    LET variant == SelectVariant(prop)
    IN  CASE variant = "int"     -> CreateIntParam(e, tabIndex, o, prop, info)
          [] variant = "bool"    -> CreateBoolParam(e, tabIndex, o, prop, info)
          [] variant = "string"  -> CreateStringParam(e, tabIndex, o, prop, info)
          [] variant = "color"   -> CreateColorParam(e, tabIndex, o, prop, info)
          [] variant = "strlist" -> CreateStringListParam(e, tabIndex, o, prop, info)
          [] variant = "combo"   -> CreateEnumParam(e, tabIndex, o, prop, info)
          [] variant = "none"    -> e
          [] OTHER               -> CreateValueParam(e, tabIndex, o, prop, info, variant)

\* the loop of bindObjectToEditor over the properties from the i-th on
\* (e.cat is the local categoryToTabIndex)
RECURSIVE BindProps(_, _, _)
BindProps(i, o, e) ==
    IF i > Len(ObjProps) THEN e
    ELSE LET prop == ObjProps[i]
         IN  IF ~prop.writable THEN BindProps(i + 1, o, e)
             ELSE LET info     == ExtractPropertyInfo(o, prop)
                      category == IF info.category = <<>> THEN DefaultTabName
                                  ELSE info.category
                      e1 == IF category \in DOMAIN e.cat THEN e
                            ELSE [EditorAddTab(e, "binder", category) EXCEPT
                                     !.cat = @ @@ (category :> AddTabIndex(e.tabCount))]
                      e2 == CreateParamForProperty(e1, e1.cat[category], o, prop, info)
                  IN  BindProps(i + 1, o, e2)

\* bindObjectToEditor(editor, obj, "Class")
BindObject(e, o) == [BindProps(1, o, [e EXCEPT !.cat = NoCategories]) EXCEPT !.cat = NoCategories]

(* ------------------------------------------------------------------ *)
(* Inputs: the Parameters the host constructs, the user's edits, the   *)
(* documents loaded                                                    *)
(* ------------------------------------------------------------------ *)
ComboOptions == << <<"Option 1">>, <<"Option 2">>, <<"Option 3">> >>
ListAB == << <<"a">>, <<"b">> >>

\* the kinds of Parameter the host constructs, in the order it constructs them
HostKinds == <<"int", "color", "combo", "bool", "strlist">>

\* main.cpp: int intVal = 42
AnswerVal == 42

\* the values of the host's int variable when its IntParam is constructed
IntVals == {AnswerVal, 250}

\* the value of the variable of a second IntParam named "Answer"
TwinVal == 10

\* the constructor calls of the host (main.cpp, a string list, and a second
\* IntParam with the name of the first); v is the value of the int variable
HostParam(k, v) ==
    CASE k = "int"     -> IntParam(<<"Answer">>, v, AnswerMin, AnswerMax, 1)
      [] k = "bool"    -> BoolParam(<<"Enable">>, TRUE, FALSE)
      [] k = "combo"   -> ComboParam(<<"Options">>, ComboOptions, 1, 0)
      [] k = "color"   -> ColorParam(<<"Color">>, Blue, Red)
      [] k = "strlist" -> StringListParam(<<"List">>, ListAB, ListAB)
      [] k = "twin"    -> IntParam(<<"Answer">>, TwinVal, AnswerMin, AnswerMax, 1)

\* editor.addParam(tabIndex, new ...Param(...))
HostAddParam(e, tabIndex, k, v) ==
    EditorAddParam(NewObject(e, HostParam(k, v)), tabIndex, "host")

\* the texts the host gives setMainHelp, call after call
HelpText(n) == <<"help", Digits[(n % 10) + 1]>>

\* The editor main() builds: two tabs, the Parameters, the bound object, the help.
MainEditor(v) ==
    LET e1 == EditorAddTab(EditorAddTab(NewEditor, "host", <<"Simple">>),
                           "host", <<"File Settings">>)
        generalTab == e1.addTabLog[1].ret
        fileTab    == e1.addTabLog[2].ret
        e2 == HostAddParam(e1, generalTab, "int", v)
        e3 == HostAddParam(e2, generalTab, "combo", v)
        e4 == HostAddParam(e3, generalTab, "color", v)
        e5 == HostAddParam(e4, generalTab, "bool", v)
        e6 == HostAddParam(e5, fileTab, "strlist", v)
        e7 == BindObject(e6, ObjInit)
    IN  EditorSetMainHelp(e7, HelpText(1))

\* main()'s editor, then one more tab, left empty, and a second Parameter
\* named "Answer" added to the second tab
TwinEditor(v) ==
    LET e == EditorAddTab(MainEditor(v), "host", <<"Empty">>)
    IN  HostAddParam(e, e.addTabLog[2].ret, "twin", v)

\* what the user can set a control to
EditValues(p) ==
    LET k == params[p].kind
    IN  CASE k = "int"     -> {7}
          [] k = "bool"    -> {TRUE, FALSE}
          [] k = "combo"   -> 0..(Len(params[p].options) - 1)
          [] k = "string"  -> {<<"x">>}
          [] k = "strlist" -> {<<"b">>, <<"a", ",", "b">>}
          [] OTHER         -> {}

\* the user changes the control of Parameter p
UserSet(w, p, v) ==
    LET k == params[p].kind
    IN  CASE k = "int"     -> [w EXCEPT !.ctrl[p] = SpinSetValue(params[p].min, params[p].max, v)]
          [] k = "combo"   -> ComboSelect(w, p, v)
          [] k = "strlist" -> [w EXCEPT !.ctrl[p].text = v]
          [] OTHER         -> [w EXCEPT !.ctrl[p] = v]

\* the lambda of ColorParam's constructor, when the colour dialog gives colour c
ColorPicked(w, p, c) == [w EXCEPT !.ctrl[p] = UpdateButton(c), !.slot[p] = c]

Element(n, attrs) == <<Chars, StartEl(n, attrs), EndEl(n)>>

Document(body) ==
    <<StartEl(<<"Params">>, NoAttrs)>> \o body \o <<Chars, EndEl(<<"Params">>), EndDoc>>

\* a document whose attributes are all well-formed
DocGood == Document(
    Element(<<"Answer">>, [value |-> <<"7">>]) \o
    Element(<<"Enable">>, [value |-> FalseText]) \o
    Element(<<"Options">>, [index |-> <<"2">>]) \o
    Element(<<"Color">>, [color |-> <<"#00ff00">>]) \o
    Element(<<"List">>, [value |-> <<"b", ",", "a">>]) \o
    Element(<<"integerValue">>, [value |-> <<"5">>]) \o
    Element(<<"mode">>, [index |-> <<"2">>]))

\* a document whose attributes are missing or do not parse
DocBad == Document(
    Element(<<"Answer">>, [value |-> <<"a", "b", "c">>]) \o
    Element(<<"Enable">>, [value |-> <<"maybe">>]) \o
    Element(<<"Options">>, [index |-> <<"x">>]) \o
    Element(<<"Color">>, NoAttrs) \o
    Element(<<"List">>, NoAttrs) \o
    Element(<<"integerValue">>, [value |-> <<"1", "2", "x">>]) \o
    Element(<<"mode">>, NoAttrs))

\* a well-formed document with an element no Parameter is named as, then a
\* value above the range of Answer, then an element inside another:
\* <Params> <Unknown value="9"/> <Answer value="500"/>
\*   <Color color="#00ff00"><Options index="2"/></Color> </Params>
DocRange == Document(
    Element(<<"Unknown">>, [value |-> <<"9">>]) \o
    Element(<<"Answer">>, [value |-> <<"5", "0", "0">>]) \o
    <<Chars, StartEl(<<"Color">>, [color |-> <<"#00ff00">>]),
      StartEl(<<"Options">>, [index |-> <<"2">>]), EndEl(<<"Options">>),
      EndEl(<<"Color">>)>>)

\* the documents loadFromFile is given, besides the file saveToFile wrote
Docs == <<DocGood, DocBad, DocRange>>

\* document 0 is the file saveToFile wrote
DocAt(d) == IF d = 0 THEN file ELSE Docs[d]

(* ------------------------------------------------------------------ *)
(* Init and the actions                                                *)
(* ------------------------------------------------------------------ *)
Op(op, p, d) == [op |-> op, p |-> p, doc |-> d]

HostCalls(lg) == Cardinality({i \in DOMAIN lg : lg[i].by = "host"})

\* the property writes among the events, with the outcome at the time of each
Writes(ev, before) ==
    {[prop |-> ev[i].prop,
      at   |-> IF \E j \in 1..(i - 1) : ev[j].ev = "accepted" THEN "accepted" ELSE before]
        : i \in {j \in DOMAIN ev : ev[j].ev = "write"}}

\* every object exists, no buffer was released
LifeInit ==
    [editor |-> TRUE, object |-> TRUE, deadParams |-> {}, released |-> <<>>,
     uses |-> {}, crashed |-> FALSE]

\* the state in which the host holds editor e, not yet displayed
Holds(e, calls) ==
    /\ params = e.params
    /\ ctrl = e.ctrl
    /\ slot = e.slot
    /\ tabCount = e.tabCount
    /\ allParams = e.allParams
    /\ helpTabCreated = e.helpTabCreated
    /\ helpHtml = e.helpHtml
    /\ writeBacks = e.writeBacks
    /\ addTabLog = e.addTabLog
    /\ addLog = e.addLog
    /\ obj = ObjInit
    /\ visible = FALSE
    /\ outcome = "pending"
    /\ file = <<>>
    /\ log = <<>>
    /\ written = {}
    /\ pre = [slot |-> <<>>, obj |-> ObjInit]
    /\ lastOp = Op("init", 0, 0)
    /\ helpCalls = calls
    /\ nops = 0
    /\ life = LifeInit
    /\ probe = <<>>

\* main() has built its editor
Init ==
    \E e \in {MainEditor(AnswerVal)} \cup {TwinEditor(v) : v \in IntVals \ {AnswerVal}} :
       bound = TRUE /\ Holds(e, 1)

\* the host has constructed an editor and nothing else
InitBuild == bound = FALSE /\ Holds(NewEditor, 0)

\* the editor becomes e
Becomes(e) ==
    /\ params' = e.params
    /\ ctrl' = e.ctrl
    /\ slot' = e.slot
    /\ tabCount' = e.tabCount
    /\ allParams' = e.allParams
    /\ helpTabCreated' = e.helpTabCreated
    /\ helpHtml' = e.helpHtml
    /\ writeBacks' = e.writeBacks
    /\ addTabLog' = e.addTabLog
    /\ addLog' = e.addLog
    /\ UNCHANGED <<obj, visible, outcome, file, log, written, pre, nops, life, probe>>

Building == ~visible /\ outcome = "pending"

\* the host calls editor.addTab(title)
AddTab ==
    /\ Building
    /\ HostCalls(addTabLog) < MaxTabs
    /\ Becomes(EditorAddTab(Editor, "host", <<"Simple">>))
    /\ lastOp' = Op("addTab", 0, 0)
    /\ UNCHANGED <<bound, helpCalls>>

\* the host calls editor.addParam(tabIndex, new ...Param(...)): with an index
\* addTab returned, or with one below or above the tabs of allParams
AddParam ==
    /\ Building
    /\ HostCalls(addLog) < MaxParams
    /\ HostCalls(addLog) < Len(HostKinds)
    /\ \E tabIndex \in {-1, Len(allParams)} \cup {addTabLog[i].ret : i \in DOMAIN addTabLog},
          v \in IntVals :
         /\ HostKinds[HostCalls(addLog) + 1] # "int" => v = AnswerVal
         /\ Becomes(HostAddParam(Editor, tabIndex, HostKinds[HostCalls(addLog) + 1], v))
         /\ lastOp' = Op("addParam", Len(params) + 1, 0)
    /\ UNCHANGED <<bound, helpCalls>>

\* the host calls editor.setMainHelp(html)
SetMainHelp ==
    /\ Building
    /\ helpCalls < MaxHelp
    /\ Becomes(EditorSetMainHelp(Editor, HelpText(helpCalls + 1)))
    /\ helpCalls' = helpCalls + 1
    /\ lastOp' = Op("setMainHelp", 0, 0)
    /\ UNCHANGED bound

\* the host calls AdvancedPropertyAdapter::bindObjectToEditor(&editor, &config, "Class")
BindObjectToEditor ==
    /\ Building
    /\ ~bound
    /\ Becomes(BindObject(Editor, obj))
    /\ bound' = TRUE
    /\ lastOp' = Op("bind", 0, 0)
    /\ UNCHANGED helpCalls

\* the host displays the dialog: editor.exec()
Show ==
    /\ ~visible
    /\ outcome = "pending"
    /\ visible' = TRUE
    /\ pre' = [slot |-> slot, obj |-> obj]
    /\ lastOp' = Op("show", 0, 0)
    /\ UNCHANGED <<probe, life, params, ctrl, slot, obj, bound, tabCount, allParams, helpTabCreated,
                   helpHtml, writeBacks, outcome, file, log, addTabLog, addLog, written,
                   helpCalls, nops>>

\* what an operation on the controls leaves behind
Effect(w, op) ==
    /\ ctrl' = w.ctrl
    /\ slot' = w.slot
    /\ obj' = w.obj
    /\ written' = written \cup Writes(w.ev, outcome)
    /\ lastOp' = op
    /\ nops' = nops + 1
    /\ UNCHANGED <<probe, life, params, bound, tabCount, allParams, helpTabCreated, helpHtml, writeBacks,
                   visible, outcome, file, log, addTabLog, addLog, pre, helpCalls>>

\* the user changes the control of a displayed Parameter
UserEdit ==
    /\ visible
    /\ nops < MaxOps
    /\ \E p \in Registered :
         \E v \in EditValues(p) :
            /\ UserSet(World, p, v).ctrl[p] # ctrl[p]
            /\ Effect(UserSet(World, p, v), Op("edit", p, 0))

\* the user clicks a ColorParam's button and chooses a colour in the dialog
PickColor ==
    /\ visible
    /\ nops < MaxOps
    /\ \E p \in Registered :
         /\ params[p].kind = "color"
         /\ \E c \in {Green} : Effect(ColorPicked(World, p, c), Op("pick", p, 0))

\* the user clicks DEF: the lambda addParam connects calls param->reset()
ClickDef ==
    /\ visible
    /\ nops < MaxOps
    /\ \E p \in Registered : Effect(ParamReset(World, p), Op("reset", p, 0))

\* a different loadFromFile, that reads the file whether it opened or not:
\* C14_UnopenableFile must tell it from the code's
LoadFile_IgnoresOpen(opens, doc, w) == LoadScan(doc, 0, w)

\* loadFromFile: it returns at once when file.open fails
LoadFile(opens, doc, w) == IF ~opens THEN w ELSE LoadScan(doc, 0, w)

\* saveToFile: it returns at once when file.open fails, and the file keeps
\* its content
SaveFile(opens, old) == IF ~opens THEN old ELSE SavedDocument

\* loadFromFile(filename): the file opens or does not (an unreadable file that
\* holds the well-formed document)
LoadFromFile ==
    /\ nops < MaxOps
    /\ \E d \in 0..Len(Docs), opens \in BOOLEAN :
         /\ d = 0 => file # <<>>
         /\ ~opens => d = 1
         /\ Effect(LoadFile(opens, DocAt(d), World),
                   Op(IF opens THEN "load" ELSE "loadFailed", 0, d))

\* saveToFile(filename): the file opens or does not
SaveToFile ==
    /\ nops < MaxOps
    /\ \E opens \in BOOLEAN :
         /\ file' = SaveFile(opens, file)
         /\ lastOp' = Op(IF opens THEN "save" ELSE "saveFailed", 0, 0)
    /\ nops' = nops + 1
    /\ UNCHANGED <<probe, life, params, ctrl, slot, obj, bound, tabCount, allParams, helpTabCreated,
                   helpHtml, writeBacks, visible, outcome, log, addTabLog, addLog, written,
                   pre, helpCalls>>

\* the user clicks APPLY
ClickApply ==
    /\ visible
    /\ LET w == OnApplyClicked(World)
       IN  /\ ctrl' = w.ctrl
           /\ slot' = w.slot
           /\ obj' = w.obj
           /\ log' = w.ev
           /\ written' = written \cup Writes(w.ev, outcome)
    /\ outcome' = "accepted"
    /\ visible' = FALSE
    /\ lastOp' = Op("apply", 0, 0)
    /\ UNCHANGED <<probe, life, params, bound, tabCount, allParams, helpTabCreated, helpHtml, writeBacks,
                   file, addTabLog, addLog, pre, helpCalls, nops>>

\* the user clicks CANCEL: onCancelClicked
ClickCancel ==
    /\ visible
    /\ outcome' = "rejected"
    /\ visible' = FALSE
    /\ lastOp' = Op("cancel", 0, 0)
    /\ UNCHANGED <<probe, life, params, ctrl, slot, obj, bound, tabCount, allParams, helpTabCreated,
                   helpHtml, writeBacks, file, log, addTabLog, addLog, written, pre,
                   helpCalls, nops>>

\* main()'s editor: displayed, edited, loaded, saved, accepted or rejected
Next ==
    \/ Show
    \/ UserEdit
    \/ PickColor
    \/ ClickDef
    \/ LoadFromFile
    \/ SaveToFile
    \/ ClickApply
    \/ ClickCancel

Spec == Init /\ [][Next]_vars

\* any host program: the editor is built call by call, then displayed
NextBuild ==
    \/ AddTab
    \/ AddParam
    \/ SetMainHelp
    \/ BindObjectToEditor
    \/ Show
    \/ ClickApply
    \/ ClickCancel

SpecBuild == InitBuild /\ [][NextBuild]_vars

(* ------------------------------------------------------------------ *)
(* createParamForProperty, property by property                        *)
(* ------------------------------------------------------------------ *)
\* a property, its value and the dynamic metadata properties of its object
Probe(name, type, keys, value, meta) ==
    [prop |-> Property(name, type, TRUE, keys), value |-> value, meta |-> meta]

NoMeta == [s \in {} |-> 0]

\* one property of every meta-type of the chain, with the meta-type of an
\* enumeration of its own (Q_ENUM), an enumeration whose userType() is int
\* (not registered) and a type with no branch
TypeProbes ==
    {Probe(<<TypeTable[i][1], "Value">>, TypeTable[i][1], <<>>,
           CASE TypeTable[i][1] = "int" -> 42
             [] TypeTable[i][1] = "bool" -> TRUE
             [] TypeTable[i][1] = "QColor" -> Blue
             [] TypeTable[i][1] = "QStringList" -> ListAB
             [] OTHER -> <<TypeTable[i][1]>>,
           NoMeta) : i \in DOMAIN TypeTable}
    \cup {Probe(<<"level">>, "enum", << <<"Low">>, <<"High">> >>, 1, NoMeta),
          Probe(<<"flag">>, "int", << <<"Low">>, <<"High">> >>, 1, NoMeta),
          Probe(<<"font">>, "QFont", <<>>, <<"Arial">>, NoMeta)}

\* the values of a numeric metadata property that is present
MetaVals == {-3, 0, 5}

\* an integer property with every combination of Min, Max and Step present,
\* zero or absent
RangeProbes ==
    {Probe(<<"count">>, "int", <<>>, 4,
           [s \in present |-> IF s = "Min" THEN lo ELSE IF s = "Max" THEN hi ELSE st]) :
        present \in SUBSET {"Min", "Max", "Step"}, lo \in MetaVals, hi \in MetaVals,
        st \in MetaVals \ {-3}}

\* text properties named with and without underscores, with and without a
\* Display override
NameProbes ==
    {Probe(n, "QString", <<>>, <<"x">>, m) :
        n \in {<<"title">>, <<"m", "_", "title">>, <<"sub", "_", "title">>},
        m \in {NoMeta, [s \in {"Display"} |-> <<"Main", " ", "Title">>]}}

\* the object: the property and its metadata properties, by name
ProbeObject(q) ==
    (q.prop.name :> q.value) @@
    [n \in {q.prop.name \o <<s>> : s \in DOMAIN q.meta} |-> q.meta[n[Len(n)]]]

\* the binder has added the tab of the default category and nothing else
InitProbe == bound = FALSE /\ Holds(EditorAddTab(NewEditor, "binder", DefaultTabName), 0)

\* one turn of the loop of bindObjectToEditor for a writable property of the
\* default category: extractPropertyInfo, createParamForProperty
BindProperty ==
    /\ Building
    /\ Len(probe) < MaxProbes
    /\ \E q \in TypeProbes \cup RangeProbes \cup NameProbes :
         /\ q.prop.name \notin DOMAIN obj
         /\ LET o    == ProbeObject(q) @@ obj
                info == ExtractPropertyInfo(o, q.prop)
                e    == CreateParamForProperty(Editor, addTabLog[1].ret, o, q.prop, info)
            IN  /\ params' = e.params
                /\ ctrl' = e.ctrl
                /\ slot' = e.slot
                /\ allParams' = e.allParams
                /\ writeBacks' = e.writeBacks
                /\ addLog' = e.addLog
                /\ obj' = o
                /\ probe' = Append(probe, [prop |-> q.prop, meta |-> q.meta,
                                           made |-> (Len(params) + 1)..Len(e.params)])
    /\ lastOp' = Op("bindProperty", 0, 0)
    /\ UNCHANGED <<bound, tabCount, helpTabCreated, helpHtml, visible, outcome, file, log,
                   addTabLog, written, pre, helpCalls, nops, life>>

NextProbe ==
    \/ BindProperty
    \/ Show
    \/ ClickApply
    \/ ClickCancel

SpecProbe == InitProbe /\ [][NextProbe]_vars

(* ------------------------------------------------------------------ *)
(* The lifetime of the Editor, the Parameters, the controls, the       *)
(* buffers and the bound object                                        *)
(* ------------------------------------------------------------------ *)
\* the Parameters the binder constructed: *ptr is a buffer it allocated
BinderParams == {addLog[i].p : i \in {j \in DOMAIN addLog : addLog[j].by = "binder"}}

\* what the lambda connected to the destroyed signal of Parameter p deletes,
\* in order: valuePtr, and for an enumeration's Parameter the options too
Buffers(p) ==
    IF p \notin BinderParams THEN <<>>
    ELSE IF params[p].enumProp # <<>>
         THEN <<[p |-> p, buf |-> "valuePtr"], [p |-> p, buf |-> "options"]>>
         ELSE <<[p |-> p, buf |-> "valuePtr"]>>

\* was the value buffer of Parameter p deleted
Released(l, p) == \E i \in DOMAIN l.released : l.released[i] = [p |-> p, buf |-> "valuePtr"]

\* the control is constructed as a child of its Parameter; addParam puts the
\* control of a Parameter it registers into the tab's layout, which makes it a
\* child of the tab, and the Parameter itself is nobody's child
ControlAlive(l, p) == IF p \in Registered THEN l.editor ELSE p \notin l.deadParams

Running == life.editor /\ ~life.crashed

\* the accesses to deleted buffers in onApplyClicked: apply() of a Parameter in
\* allParams writes *ptr, each lambda connected to accepted() reads *valuePtr
ApplyUses(l) ==
    {[p |-> p, by |-> "apply"] : p \in {q \in Registered : Released(l, q)}} \cup
    {[p |-> writeBacks[i].p, by |-> "writeBack"] :
        i \in {j \in DOMAIN writeBacks : Released(l, writeBacks[j].p)}}

\* onApplyClicked has undefined behaviour: it calls apply() on a deleted
\* Parameter, a lambda reads a deleted buffer, or prop.write is given a
\* deleted object
ApplyUndefined(l) ==
    \/ Registered \cap l.deadParams # {}
    \/ \E i \in DOMAIN writeBacks : Released(l, writeBacks[i].p)
    \/ ~l.object /\ writeBacks # <<>>

\* the outcomes of undefined behaviour: the process ends, or it goes on with
\* the deleted memory as it was left, or with other content in it
Outcomes == {"crash", "stale", "garbage"}

\* the properties of the object after write-backs that read other content
Scribbled(l, o) ==
    [n \in DOMAIN o |->
        IF \E i \in DOMAIN writeBacks : writeBacks[i].prop = n /\ Released(l, writeBacks[i].p)
        THEN "garbage" ELSE o[n]]

\* a step that leaves the controls, slots and properties of w and lifetimes l
LifeEffect(w, op, l) ==
    /\ ctrl' = w.ctrl
    /\ slot' = w.slot
    /\ obj' = IF life.object THEN w.obj ELSE obj
    /\ life' = l
    /\ lastOp' = op
    /\ UNCHANGED <<probe, params, bound, tabCount, allParams, helpTabCreated, helpHtml, writeBacks,
                   file, log, addTabLog, addLog, written, pre, helpCalls>>

\* editor.exec() for the first time
Exec == Running /\ Show

\* editor.exec() again, after the dialog was closed
ExecAgain ==
    /\ Running
    /\ ~visible
    /\ outcome # "pending"
    /\ nops < MaxOps
    /\ visible' = TRUE
    /\ outcome' = "pending"
    /\ nops' = nops + 1
    /\ LifeEffect(World, Op("show", 0, 0), life)

\* the user clicks APPLY and every object onApplyClicked touches exists
ApplyDefined == Running /\ ~ApplyUndefined(life) /\ ClickApply

\* the user clicks APPLY and onApplyClicked has undefined behaviour
ApplyUndefinedly ==
    /\ Running
    /\ visible
    /\ ApplyUndefined(life)
    /\ \E out \in Outcomes :
         LET w == OnApplyClicked(World)
             l == [life EXCEPT !.uses = @ \cup ApplyUses(life)]
         IN  CASE out = "crash" ->
                    /\ LifeEffect(World, Op("apply", 0, 0), [l EXCEPT !.crashed = TRUE])
                    /\ UNCHANGED <<visible, outcome>>
               [] out = "stale" ->
                    /\ LifeEffect(w, Op("apply", 0, 0), l)
                    /\ visible' = FALSE /\ outcome' = "accepted"
               [] out = "garbage" ->
                    /\ LifeEffect([w EXCEPT !.obj = Scribbled(life, @)], Op("apply", 0, 0), l)
                    /\ visible' = FALSE /\ outcome' = "accepted"
    /\ UNCHANGED nops

\* the user clicks CANCEL
Cancel == Running /\ ClickCancel

\* the user selects another item in the combo box of an enumeration's
\* Parameter: the lambda createEnumParam connected writes *valuePtr and the
\* property
SelectEnum ==
    /\ Running
    /\ visible
    /\ nops < MaxOps
    /\ \E p \in Registered :
         /\ params[p].enumProp # <<>>
         /\ \E v \in EditValues(p) :
              /\ v # ctrl[p]
              /\ IF Released(life, p) \/ ~life.object
                 THEN \E out \in Outcomes \ {"garbage"} :
                        LET l == [life EXCEPT !.uses = @ \cup
                                     IF Released(life, p) THEN {[p |-> p, by |-> "change"]} ELSE {}]
                        IN  IF out = "crash"
                            THEN LifeEffect([World EXCEPT !.ctrl[p] = v], Op("edit", p, 0),
                                            [l EXCEPT !.crashed = TRUE])
                            ELSE LifeEffect(UserSet(World, p, v), Op("edit", p, 0), l)
                 ELSE LifeEffect(UserSet(World, p, v), Op("edit", p, 0), life)
    /\ nops' = nops + 1
    /\ UNCHANGED <<visible, outcome>>

\* ~ParamsEditor: the child widgets go, the controls in the tabs among them,
\* and the connections of its signals; allParams is a vector of pointers, and
\* nothing deletes what they point to
DestroyEditor ==
    /\ Running
    /\ visible' = FALSE
    /\ LifeEffect(World, Op("destroyEditor", 0, 0), [life EXCEPT !.editor = FALSE])
    /\ UNCHANGED <<outcome, nops>>

\* a Parameter is deleted: its destroyed signal runs the binder's lambda
DestroyParam ==
    /\ ~life.crashed
    /\ Cardinality(life.deadParams) < MaxDestroyed
    /\ \E p \in Ids \ life.deadParams :
         LifeEffect(World, Op("destroyParam", p, 0),
                    [life EXCEPT !.deadParams = @ \cup {p},
                                 !.released = @ \o Buffers(p)])
    /\ UNCHANGED <<visible, outcome, nops>>

\* the bound object is deleted
DestroyObject ==
    /\ ~life.crashed
    /\ life.object
    /\ LifeEffect(World, Op("destroyObject", 0, 0), [life EXCEPT !.object = FALSE])
    /\ UNCHANGED <<visible, outcome, nops>>

\* main() has built its editor on intVal = 42
InitLife == bound = TRUE /\ Holds(MainEditor(AnswerVal), 1)

\* main()'s editor and the objects around it: displayed, accepted, rejected,
\* displayed again, and deleted in any order
NextLife ==
    \/ Exec
    \/ ExecAgain
    \/ ApplyDefined
    \/ ApplyUndefinedly
    \/ Cancel
    \/ SelectEnum
    \/ DestroyEditor
    \/ DestroyParam
    \/ DestroyObject

SpecLife == InitLife /\ [][NextLife]_vars

(* ------------------------------------------------------------------ *)
(* Properties                                                          *)
(* ------------------------------------------------------------------ *)
\* the Parameters the host constructed: their slots are the host's variables
HostParams == {addLog[i].p : i \in {j \in DOMAIN addLog : addLog[j].by = "host"}}

\* the addParam calls whose index was out of range when they were made
OutOfRange(lg) == {i \in DOMAIN lg : lg[i].tab < 0 \/ lg[i].tab >= lg[i].ntabs}

\* the value a control shows
ControlValue(c, p) == IF params[p].kind = "strlist" THEN c[p].text ELSE c[p]

\* the position of property name n in the meta-object
PropIndex(n) == CHOOSE i \in DOMAIN ObjProps : ObjProps[i].name = n

\* the last step was operation op on the controls
Did(op) == lastOp'.op = op /\ nops' = nops + 1

\* C1: when the dialog is rejected, every variable of the host and every
\* property of the bound object has the value it had when the dialog was
\* displayed, whatever the user edited, picked, reset or loaded meanwhile.
C1_RejectRestores ==
    lastOp.op = "cancel" =>
        /\ \A p \in HostParams : slot[p] = pre.slot[p]
        /\ obj = pre.obj

\* C2: on accept every registered Parameter is applied once, tab after tab
\* and in registration order inside a tab; then the outcome is accepted; then
\* the write-backs run, in the order the properties were bound. Before the
\* accept, and on reject, nothing is applied.
C2_AcceptOrder ==
    LET ps == Flatten(allParams)
        n  == Len(ps)
    IN  /\ outcome # "accepted" => log = <<>>
        /\ outcome = "accepted" =>
             /\ Len(log) = n + 1 + Len(writeBacks)
             /\ \A i \in 1..n : log[i] = Event("apply", ps[i], <<>>)
             /\ log[n + 1] = Event("accepted", 0, <<>>)
             /\ \A j \in 1..Len(writeBacks) :
                    log[n + 1 + j] = Event("write", 0, writeBacks[j].prop)
             /\ \A j, k \in 1..Len(writeBacks) :
                    j < k => PropIndex(writeBacks[j].prop) < PropIndex(writeBacks[k].prop)
        /\ lastOp.op = "apply" =>
             /\ \A p \in Registered : slot[p] = ParamApply(World, p).slot[p]
             /\ \A j \in 1..Len(writeBacks) : obj[writeBacks[j].prop] = slot[writeBacks[j].p]

\* an accept of an editor with two tabs, one of them with two Parameters, and
\* two write-backs
C2_Witness ==
    /\ outcome = "accepted"
    /\ Len(allParams) >= 2
    /\ \E t \in DOMAIN allParams : Len(allParams[t]) >= 2
    /\ \E t \in DOMAIN allParams : t > 1 /\ allParams[t] # <<>> /\ allParams[1] # <<>>
    /\ Len(writeBacks) >= 2

\* C3: a property of the bound object is written only by the accept of the
\* dialog, never while the transaction is pending.
C3_WrittenOnlyOnAccept == \A x \in written : x.at = "accepted"

\* C4: the k-th addTab (from zero) returns k, the index of the Tab Group it
\* appended.
C4_AddTabReturnsGroup ==
    \A k \in DOMAIN addTabLog :
        /\ addTabLog[k].group = k - 1
        /\ addTabLog[k].ret = addTabLog[k].group

\* the Parameters of the addParam calls in ps are in no Tab Group, were not
\* applied, are not in what saveToFile writes now, and a load now gives them
\* nothing
NoTrace(ps) ==
    /\ \A p \in ps :
          /\ p \notin Registered
          /\ \A j \in DOMAIN log : log[j].p # p
    /\ ps # {} =>
          /\ LET saved == SavedDocument
             IN  \A p \in ps : \A j \in DOMAIN saved : saved[j].name # params[p].name
          /\ \A d \in DOMAIN Docs :
                LET w == LoadScan(Docs[d], 0, World)
                IN  \A p \in ps : w.ctrl[p] = ctrl[p] /\ w.slot[p] = slot[p]

\* C5: an addParam with an index below zero or not below the number of Tab
\* Groups registers nothing and changes nothing: the Parameter is in no Tab
\* Group, is never applied, is not in what saveToFile writes, gets nothing
\* from a load, and the call leaves every tab, control, slot and property as
\* it was.
C5_Step ==
    /\ \A i \in OutOfRange(addLog) :
          LET p == addLog[i].p
          IN  ctrl'[p] = ctrl[p] /\ slot'[p] = slot[p]
    /\ (lastOp'.op = "addParam" /\ Len(addLog') = Len(addLog) + 1
            /\ Len(addLog') \in OutOfRange(addLog')) =>
          /\ allParams' = allParams
          /\ tabCount' = tabCount
          /\ writeBacks' = writeBacks
          /\ obj' = obj
          /\ \A p \in Ids : ctrl'[p] = ctrl[p] /\ slot'[p] = slot[p] /\ params'[p] = params[p]

C5_OutOfRangeAddParam ==
    /\ []NoTrace({addLog[i].p : i \in OutOfRange(addLog)})
    /\ [][C5_Step]_vars

\* the host's addParam with an index out of range, beside a tab with
\* Parameters, of a Parameter the documents name; the editor was accepted
C5_Witness ==
    /\ \E i \in OutOfRange(addLog) :
          /\ addLog[i].by = "host"
          /\ addLog[i].ntabs >= 1
          /\ \E j \in DOMAIN DocGood : DocGood[j].name = params[addLog[i].p].name
    /\ Registered # {}
    /\ outcome = "accepted"

\* C6: saveToFile and then loadFromFile of the file written leave the value
\* of every control as it was before the save.
C6_SaveLoadRoundTrip ==
    [][(lastOp.op = "save" /\ Did("load") /\ lastOp'.doc = 0) =>
          \A p \in Registered : ControlValue(ctrl', p) = ControlValue(ctrl, p)]_vars

\* C7: reset() and then apply() leave in the slot the default captured when
\* the Parameter was constructed.
C7_ResetApplyDefault ==
    [][(lastOp.op = "reset" /\ lastOp'.op = "apply") =>
          slot'[lastOp.p] = params[lastOp.p].defVal]_vars

\* C8: a reset changes the control only: every slot, every buffer of the
\* binder and every property of the bound object stay as they are.
C8_ResetOnlyControl == [][Did("reset") => slot' = slot /\ obj' = obj]_vars

\* C9: the load of a document whose attributes are all missing or not
\* parseable leaves every control with its value.
C9_MalformedSkipped ==
    [][(Did("load") /\ lastOp'.doc = 2) =>
          \A p \in Registered : ControlValue(ctrl', p) = ControlValue(ctrl, p)]_vars

\* C10: a load changes the controls only: every slot, every buffer of the
\* binder, every property of the bound object and the outcome stay as they
\* are.
C10_LoadOnlyControls ==
    [][Did("load") => slot' = slot /\ obj' = obj /\ outcome' = outcome]_vars

\* C11: when a load meets an element whose tag is the name of several
\* registered Parameters, each of them takes the element's value: after the
\* load of the well-formed document, whose element Answer has value 7, the
\* control of every Parameter named Answer shows 7.
C11_NameCollisionFanOut ==
    [][(Did("load") /\ lastOp'.doc = 1) =>
          \A p \in Registered : params[p].name = <<"Answer">> => ctrl'[p] = 7]_vars

\* C12: the file saveToFile wrote has one root element Params and in it one
\* element for each registered Parameter, in the order of the tabs and of
\* the registrations inside a tab, with the Parameter's name as tag, and
\* nothing else: a tab without Parameters and the help tab add nothing.
C12_SaveFormat ==
    file # <<>> =>
        LET ps == Flatten(allParams)
            n  == Len(ps)
        IN  /\ Len(file) = 3 * n + 4
            /\ file[1] = StartEl(<<"Params">>, NoAttrs)
            /\ file[Len(file) - 2].type = "chars"
            /\ file[Len(file) - 1] = EndEl(<<"Params">>)
            /\ file[Len(file)] = EndDoc
            /\ \A i \in 1..n :
                   /\ file[3 * i - 1].type = "chars"
                   /\ file[3 * i].type = "start"
                   /\ file[3 * i].name = params[ps[i]].name
                   /\ file[3 * i + 1] = EndEl(params[ps[i]].name)

\* a file was saved by an editor with a help tab, a tab without Parameters
\* and two tabs with Parameters
C12_Witness ==
    /\ file # <<>>
    /\ helpTabCreated
    /\ \E t \in DOMAIN allParams : allParams[t] = <<>>
    /\ \E t, u \in DOMAIN allParams : t # u /\ Len(allParams[t]) >= 2 /\ allParams[u] # <<>>

\* the value the attributes of a saved element give the control of Parameter p
SavedValue(attrs, p) ==
    LET k == params[p].kind
    IN  CASE k = "int"   -> TextToInt(attrs["value"])
          [] k = "combo" -> TextToInt(attrs["index"])
          [] k = "color" -> ColorFromName(attrs["color"])
          [] k = "bool"  -> attrs["value"] = TrueText
          [] OTHER       -> attrs["value"]

\* C13: saveToFile writes for each Parameter the value its control shows,
\* also when the slot holds another value, and changes no control, no slot,
\* no property of the bound object and not the outcome.
C13_SaveReadsControl ==
    [][Did("save") =>
          /\ ctrl' = ctrl /\ slot' = slot /\ obj' = obj /\ outcome' = outcome
          /\ \A i \in 1..Len(Flatten(allParams)) :
                 LET q == Flatten(allParams)[i]
                 IN  SavedValue(file'[3 * i].attrs, q) = ControlValue(ctrl, q)]_vars

\* a save after a reject, with an edit of Answer that was not applied
C13_Witness ==
    /\ lastOp.op = "save"
    /\ outcome = "rejected"
    /\ \E q \in Registered :
          params[q].kind = "int" /\ ctrl[q] # slot[q] /\ ctrl[q] # pre.slot[q]

\* C14: a loadFromFile or saveToFile whose file does not open changes
\* nothing: no control, slot, property, registration or outcome, and nothing
\* is written.
C14_UnopenableFile ==
    [][(Did("loadFailed") \/ Did("saveFailed")) =>
          UNCHANGED <<params, ctrl, slot, obj, allParams, tabCount, writeBacks,
                      visible, outcome, file, log, written>>]_vars

\* a load that failed to open its file, and a save that failed after an
\* earlier save had written the file
C14_Witness ==
    \/ lastOp.op = "loadFailed" /\ visible
    \/ lastOp.op = "saveFailed" /\ file # <<>>

\* C15: the editor has no help tab before the first setMainHelp and one help
\* tab after it, however many calls follow, and the help shown is the text
\* of the last call.
C15_OneHelpTab ==
    /\ helpCalls = 0 => tabCount = Len(allParams) /\ ~helpTabCreated /\ helpHtml = <<>>
    /\ helpCalls > 0 =>
          /\ tabCount = Len(allParams) + 1
          /\ helpTabCreated
          /\ helpHtml = HelpText(helpCalls)

\* setMainHelp was called twice, with two texts, on an editor with tabs and
\* Parameters
C15_Witness ==
    /\ helpCalls = 2
    /\ HelpText(1) # HelpText(2)
    /\ Len(allParams) >= 2
    /\ Registered # {}

\* the types createParamForProperty has a branch for
SupportedTypes == {"int", "bool", "QString", "QColor", "QStringList", "enum"}

\* the Parameters made for the property named n
ParamsOf(n) ==
    {p \in Ids : params[p].enumProp = n}
        \cup {writeBacks[j].p : j \in {k \in DOMAIN writeBacks : writeBacks[k].prop = n}}

\* the category a property resolves to
ResolvedCategory(n) ==
    IF (n \o <<"Category">>) \in DOMAIN obj THEN obj[n \o <<"Category">>]
    ELSE DefaultTabName

\* the Tab Groups Parameter p is registered in
TabsOf(p) == {t \in DOMAIN allParams : \E i \in DOMAIN allParams[t] : allParams[t][i] = p}

\* C16: after bindObjectToEditor every writable property of a supported type
\* has one Parameter, registered in one Tab Group; two such properties are
\* in the same Tab Group exactly when they resolve to the same category; the
\* Tab Group was appended by the binder; a property that is not writable or
\* of an unsupported type has no Parameter.
C16_BinderCoverage ==
    bound =>
        /\ \A i \in DOMAIN ObjProps :
              LET prop == ObjProps[i]
              IN  IF prop.writable /\ prop.type \in SupportedTypes
                  THEN /\ Cardinality(ParamsOf(prop.name)) = 1
                       /\ \A p \in ParamsOf(prop.name) :
                              /\ Cardinality(TabsOf(p)) = 1
                              /\ \A t \in TabsOf(p) :
                                     \E k \in DOMAIN addTabLog :
                                        addTabLog[k].by = "binder" /\ addTabLog[k].group = t - 1
                  ELSE ParamsOf(prop.name) = {}
        /\ \A i, j \in DOMAIN ObjProps :
              \A p \in ParamsOf(ObjProps[i].name), q \in ParamsOf(ObjProps[j].name) :
                 (TabsOf(p) = TabsOf(q))
                    <=> (ResolvedCategory(ObjProps[i].name) = ResolvedCategory(ObjProps[j].name))

FreshChoice(p, j) ==
    LET f == ComboParam(params[p].name, params[p].options, j, params[p].defVal)
    IN  [World EXCEPT !.ctrl[p] = f.ctrl, !.slot[p] = f.slot]

\* C18: a choice Parameter with n options whose control selects index i,
\* 0 <= i < n, saves the attribute index = i in decimal, applies i to its
\* slot, and the saved element loaded into a fresh choice Parameter with the
\* same options, whatever it selected before, selects the option at i.
C18_ChoiceIndexStable ==
    \A p \in Registered :
        (params[p].kind = "combo" /\ 0 <= ctrl[p] /\ ctrl[p] < Len(params[p].options)) =>
            /\ DOMAIN ParamSave(ctrl, p) = {"index"}
            /\ ParamSave(ctrl, p).index = NumberToText(ctrl[p])
            /\ ParamApply(World, p).slot[p] = ctrl[p]
            /\ lastOp.op = "apply" => slot[p] = ctrl[p]
            /\ \A j \in -1..Len(params[p].options) :
                  LET i == ParamLoad(FreshChoice(p, j), p, ParamSave(ctrl, p)).ctrl[p]
                  IN  i = ctrl[p] /\ params[p].options[i + 1] = params[p].options[ctrl[p] + 1]

\* the host's choice Parameter was applied with "Option 3" selected, after its
\* variable held the index of "Option 2"
C18_Witness ==
    /\ lastOp.op = "apply"
    /\ \E p \in Registered :
          /\ params[p].kind = "combo"
          /\ params[p].options = ComboOptions
          /\ ctrl[p] = 2
          /\ slot[p] = 2
          /\ pre.slot[p] = 1

\* C19: no buffer the binder allocated is read or written after it was
\* deleted, by apply(), by the handler of a control's change or by a
\* write-back at the accept, in whatever order the dialog is displayed,
\* accepted and rejected and the Editor, its Parameters and the bound object
\* are deleted.
C19_NoUseAfterRelease == life.uses = {}

\* C20: once the Editor is destroyed, every Parameter registered in it is
\* destroyed and so is its control, and every buffer the binder allocated for
\* such a Parameter was released, once.
C20_ParameterLifecycle ==
    ~life.editor =>
        \A p \in Registered :
            /\ p \in life.deadParams
            /\ ~ControlAlive(life, p)
            /\ \A b \in DOMAIN Buffers(p) :
                  Cardinality({i \in DOMAIN life.released :
                                  life.released[i] = Buffers(p)[b]}) = 1

\* the positions of the start elements of doc named as Parameter p
StartsFor(doc, p) ==
    {i \in DOMAIN doc : doc[i].type = "start" /\ doc[i].name = params[p].name}

\* C21: loadFromFile skips no start element: a registered Parameter whose
\* name no other registered Parameter has, and that names one start element
\* of the document, has its load() run on the attributes of that element,
\* whether the element is nested in another or not.
C21_LoadDeliversEvery ==
    [][Did("load") =>
          LET doc == DocAt(lastOp'.doc)
          IN  \A p \in Registered :
                 ((\A q \in Registered \ {p} : params[q].name # params[p].name)
                    /\ Cardinality(StartsFor(doc, p)) = 1) =>
                 LET i == CHOOSE j \in StartsFor(doc, p) : TRUE
                 IN  ctrl'[p] = ParamLoad(World, p, doc[i].attrs).ctrl[p]]_vars

\* is token t the start or the end of an element no registered Parameter is
\* named as
Unmatched(t) ==
    t.type \in {"start", "end"} /\ \A p \in Registered : params[p].name # t.name

\* the document without the start and end tags of such elements
Matching(doc) == SelectSeq(doc, LAMBDA t : ~Unmatched(t))

\* C22: loadFromFile ignores the elements no registered Parameter is named
\* as: the controls, slots and properties after the load are those the load
\* of the document without these elements leaves, so such an element changes
\* nothing and every element after it is delivered as without it.
C22_UnknownIgnored ==
    [][Did("load") =>
          \A doc \in {Matching(DocAt(lastOp'.doc))} :
             \A w \in {LoadScan(doc, 0, World)} :
                ctrl' = w.ctrl /\ slot' = w.slot /\ obj' = w.obj]_vars

\* the document with <Unknown> before <Answer> was loaded, and Answer,
\* constructed on 42, shows the value of the element after <Unknown>
C22_Witness ==
    /\ lastOp.op = "load"
    /\ \E i \in DOMAIN DocAt(lastOp.doc), p \in Registered :
          /\ i > 1
          /\ DocAt(lastOp.doc)[i].type = "start"
          /\ Unmatched(DocAt(lastOp.doc)[i])
          /\ params[p].name = <<"Answer">>
          /\ params[p].defVal = AnswerVal
          /\ ctrl[p] = AnswerMax

\* the items joined with commas
RECURSIVE JoinComma(_)
JoinComma(items) ==
    IF items = <<>> THEN <<>>
    ELSE IF Len(items) = 1 THEN items[1]
    ELSE items[1] \o <<",">> \o JoinComma(Tail(items))

\* C23: a string-list Parameter saves the items of its control, in order and
\* joined with commas, as its value attribute; load() of that attribute gives
\* the control the same items; apply() writes the same items to the slot.
C23_StringListWhole ==
    \A p \in Registered :
        params[p].kind = "strlist" =>
            /\ ParamSave(ctrl, p).value = JoinComma(ctrl[p].items)
            /\ ParamLoad(World, p, ParamSave(ctrl, p)).ctrl[p].items = ctrl[p].items
            /\ ParamApply(World, p).slot[p] = ctrl[p].items
            /\ lastOp.op = "apply" => slot[p] = ctrl[p].items

\* the addTab calls the binder made
BinderTabs == {k \in DOMAIN addTabLog : addTabLog[k].by = "binder"}

\* C24: the binder adds a tab only for a category a writable property
\* resolves to, one tab per category, and the Parameter of every property is
\* registered in the Tab Group of the tab added for its category.
C24_CategoryRouting ==
    bound =>
        /\ \A k \in BinderTabs :
              \E i \in DOMAIN ObjProps :
                 ObjProps[i].writable /\ ResolvedCategory(ObjProps[i].name) = addTabLog[k].title
        /\ \A j, k \in BinderTabs : addTabLog[j].title = addTabLog[k].title => j = k
        /\ \A i \in DOMAIN ObjProps :
              \A p \in ParamsOf(ObjProps[i].name) :
                 \E k \in BinderTabs :
                    /\ addTabLog[k].title = ResolvedCategory(ObjProps[i].name)
                    /\ TabsOf(p) = {addTabLog[k].group + 1}

\* C25: createParamForProperty selects a variant by the property's meta-type:
\* each of the thirteen meta-types of its table selects its own variant,
\* whether the property is an enumeration or not; any other meta-type selects
\* the choice variant when the property is an enumeration and nothing when it
\* is not; no property gets more than one Parameter.
C25_TypeDispatch ==
    LET Variant == [t \in {TypeTable[i][1] : i \in DOMAIN TypeTable} |->
                      CASE t = "QString" -> "string"
                        [] t = "QColor" -> "color"
                        [] t = "QStringList" -> "strlist"
                        [] t = "QDate" -> "date"
                        [] t = "QTime" -> "time"
                        [] t = "QPoint" -> "point"
                        [] t = "QSize" -> "size"
                        [] t = "QRect" -> "rect"
                        [] t = "QVariant" -> "variant"
                        [] OTHER -> t]
    IN  \A i \in DOMAIN probe :
           LET prop == probe[i].prop
               made == probe[i].made
           IN  /\ Cardinality(made) <= 1
               /\ prop.type \in DOMAIN Variant =>
                     /\ Cardinality(made) = 1
                     /\ \A p \in made : params[p].kind = Variant[prop.type]
               /\ (prop.type \notin DOMAIN Variant /\ prop.keys # <<>>) =>
                     /\ Cardinality(made) = 1
                     /\ \A p \in made : params[p].kind = "combo" /\ params[p].options = prop.keys
               /\ (prop.type \notin DOMAIN Variant /\ prop.keys = <<>>) => made = {}

\* an enumeration whose meta-type is int was given: the int variant was made
C25_Witness ==
    \E i \in DOMAIN probe :
       /\ probe[i].prop.type = "int"
       /\ probe[i].prop.keys # <<>>
       /\ \E p \in probe[i].made : params[p].kind = "int"

\* C26: the IntParam the binder makes for an integer property has the range
\* [INT_MIN, INT_MAX] when Min and Max, an absent one counting as 0, are both
\* 0, and the range [Min, Max] otherwise, an absent one counting as 0; its
\* step is Step when Step is present and not 0, and 1 otherwise.
C26_BinderIntRange ==
    \A i \in DOMAIN probe :
       LET m   == probe[i].meta
           lo  == IF "Min" \in DOMAIN m THEN m["Min"] ELSE 0
           hi  == IF "Max" \in DOMAIN m THEN m["Max"] ELSE 0
           st  == IF "Step" \in DOMAIN m THEN m["Step"] ELSE 0
       IN  \A p \in probe[i].made :
              params[p].kind = "int" =>
                 /\ (lo = 0 /\ hi = 0) => params[p].min = INT_MIN /\ params[p].max = INT_MAX
                 /\ ~(lo = 0 /\ hi = 0) => params[p].min = lo /\ params[p].max = hi
                 /\ st # 0 => params[p].step = st
                 /\ st = 0 => params[p].step = 1

\* an integer property whose Min is absent and whose Max and Step are set
\* got its IntParam: the range is [0, Max]
C26_Witness ==
    \E i \in DOMAIN probe :
       /\ DOMAIN probe[i].meta = {"Max", "Step"}
       /\ probe[i].meta["Max"] > 0
       /\ \E p \in probe[i].made :
             /\ params[p].kind = "int"
             /\ params[p].min = 0
             /\ params[p].max = probe[i].meta["Max"]
             /\ params[p].step = probe[i].meta["Step"]
             /\ params[p].step > 1

\* C27: the name of every registered Parameter is a valid element tag: it is
\* not empty and has no white space in it.
C27_NamesAreTags ==
    \A p \in Registered :
        /\ params[p].name # <<>>
        /\ \A i \in DOMAIN params[p].name : params[p].name[i] # " "

\* C28: a writable property whose type createParamForProperty has no branch
\* for leaves the editor as it was: it has no Parameter and no write-back,
\* and the binder added no tab for its category, unless a property that got
\* a Parameter resolves to the same category; the properties after it get
\* their Parameters.
C28_UnsupportedSkipped ==
    bound =>
        \A i \in DOMAIN ObjProps :
           (ObjProps[i].writable /\ SelectVariant(ObjProps[i]) = "none") =>
              /\ ParamsOf(ObjProps[i].name) = {}
              /\ \A j \in DOMAIN writeBacks : writeBacks[j].prop # ObjProps[i].name
              /\ \A k \in BinderTabs :
                    addTabLog[k].title = ResolvedCategory(ObjProps[i].name) =>
                       \E j \in DOMAIN ObjProps :
                          /\ ParamsOf(ObjProps[j].name) # {}
                          /\ ResolvedCategory(ObjProps[j].name) = addTabLog[k].title
              /\ \A j \in (i + 1)..Len(ObjProps) :
                    (ObjProps[j].writable /\ SelectVariant(ObjProps[j]) # "none") =>
                       ParamsOf(ObjProps[j].name) # {}

\* C29: when the editor is accepted and nothing was edited, reset, loaded or
\* saved since the Parameters were constructed, every value slot of the host
\* and every property of the bound object has the value it had before the
\* display.
C29_AcceptUneditedKeeps ==
    (outcome = "accepted" /\ lastOp.op = "apply" /\ nops = 0) =>
        /\ \A p \in HostParams : slot[p] = pre.slot[p]
        /\ obj = pre.obj

\* QMetaEnum::value(j) of the bound object's enumeration, key by key: an
\* enumeration whose values are not 0..n-1 (Off = 0, On = 1, Auto = 4)
ModeValues == <<0, 1, 4>>

\* C30: for the choice Parameter the binder made for an enumeration property,
\* the option selected before any operation is the key of the property's
\* value, and after the user selects option i the property holds the
\* enumeration value of key i.
C30_EnumValueOfKey ==
    \A p \in Registered :
        params[p].enumProp # <<>> =>
            /\ (nops = 0 /\ lastOp.op \in {"init", "show"}) =>
                  /\ ctrl[p] \in 0..(Len(params[p].options) - 1)
                  /\ ModeValues[ctrl[p] + 1] = obj[params[p].enumProp]
            /\ (lastOp.op = "edit" /\ lastOp.p = p) =>
                  obj[params[p].enumProp] = ModeValues[ctrl[p] + 1]

====
